---- MODULE Spec2Model ----
(***************************************************************************)
(* A model of django-newsletter's subscription persistence hook            *)
(* (newsletter/models.py, Subscription.save / update) and of the admin's   *)
(* two-step bulk import (newsletter/admin.py, subscribers_import and       *)
(* subscribers_import_confirm), of save() calls that interleave, and of    *)
(* the template resolution of activation emails (Newsletter.get_templates, *)
(* Subscription.send_activation_email).                                    *)
(*                                                                         *)
(* Storage is the subscription table: a function from primary keys to      *)
(* rows.  In-memory Subscription instances are separate from the rows they *)
(* were loaded from, so an instance can be stale with respect to storage.  *)
(***************************************************************************)
EXTENDS Integers, Sequences, FiniteSets, TLC

\* ------------------------------------------------------------------ bounds

\* now() takes the values 1..MaxTime; a date of 0 is None.
MaxTime == 2
\* Most entries one uploaded address mapping holds.
MaxAddr == 2
\* Most rows the import workflow creates in one behaviour.
MaxRows == 3
\* Most template files on disk when an activation email is sent.
MaxTemplates == 3

\* The in-memory Subscription instances callers hold.  Two handles let two
\* instances refer to the same row, so that one can be stale.
Objs == {"o1", "o2"}

\* The keys the table hands out to instances saved one by one.  save() reads
\* and writes no row but the one of the instance's own pk, so one row
\* carries every interaction between instances.
Pks == {1}

\* ------------------------------------------------------------- data model

\* Python's None for a nullable column, and the values the identity columns
\* take: user is None or a user, email_field is None, '' or an address.
None == "None"
Users == {None, "u1"}
Emails == {None, "", "a@x"}

\* Python truthiness of a nullable reference or string: None and '' are false.
Truthy(v) == v # None /\ v # ""

\* The columns of a row of the subscription table the hook reads or writes.
RowOf(self) ==
    [user |-> self.user, email_field |-> self.email_field,
     subscribed |-> self.subscribed, unsubscribed |-> self.unsubscribed,
     subscribe_date |-> self.subscribe_date,
     unsubscribe_date |-> self.unsubscribe_date]

\* Subscription(user=..., email_field=...): a new instance.  pk is None (0),
\* both flags default to False and both dates to None (0).
NewSubscription(user, email) ==
    [pk |-> 0, user |-> user, email_field |-> email,
     subscribed |-> FALSE, unsubscribed |-> FALSE,
     subscribe_date |-> 0, unsubscribe_date |-> 0]

\* Subscription.objects.get(pk=pk): an instance holding the row's columns.
Fetch(db, pk) ==
    [pk |-> pk, user |-> db[pk].user, email_field |-> db[pk].email_field,
     subscribed |-> db[pk].subscribed, unsubscribed |-> db[pk].unsubscribed,
     subscribe_date |-> db[pk].subscribe_date,
     unsubscribe_date |-> db[pk].unsubscribe_date]

\* ------------------------------------------------------ Subscription.save

\* _subscribe without its first statement: subscribe_date is left alone.
_subscribe_NoDate(self, now) ==
    [self EXCEPT !.subscribed = TRUE, !.unsubscribed = FALSE]

\* _subscribe: subscribe_date = now(), subscribed = True, unsubscribed = False.
_subscribe(self, now) ==
    [self EXCEPT !.subscribe_date = now, !.subscribed = TRUE,
                 !.unsubscribed = FALSE]

\* _unsubscribe: subscribed = False, unsubscribed = True,
\* unsubscribe_date = now().
_unsubscribe(self, now) ==
    [self EXCEPT !.subscribed = FALSE, !.unsubscribed = TRUE,
                 !.unsubscribe_date = now]

\* IdentityOk without the second assert: an instance with both set passes.
IdentityOk_EitherSet(self) ==
    Truthy(self.user) \/ Truthy(self.email_field)

\* The two asserts that open save(): one of user and email_field is set, and
\* not both.
IdentityOk(self) ==
    /\ Truthy(self.user) \/ Truthy(self.email_field)
    /\ \/ Truthy(self.user) /\ ~Truthy(self.email_field)
       \/ Truthy(self.email_field) /\ ~Truthy(self.user)

\* assert Subscription.objects.filter(pk=self.pk).count() == 1
PkResolves(self, db) == self.pk \in DOMAIN db

\* ShouldSubscribe looking at the new flag alone: a record saved as
\* subscribed is subscribed again.
ShouldSubscribe_Again(self, old) ==
    \/ self.subscribed
    \/ old.unsubscribed /\ ~self.unsubscribed

\* "If we are subscribed now and we used not to be so, subscribe.  If we used
\* to be unsubscribed but are not so anymore, subscribe."
ShouldSubscribe(self, old) ==
    \/ self.subscribed /\ ~old.subscribed
    \/ old.unsubscribed /\ ~self.unsubscribed

\* ShouldUnsubscribe without its second test: clearing subscribed alone
\* does not unsubscribe.
ShouldUnsubscribe_FlagOnly(self, old) ==
    self.unsubscribed /\ ~old.unsubscribed

\* "If we are unsubscribed now and we used not to be so, unsubscribe.  If we
\* used to be subscribed but are not subscribed anymore, unsubscribe."
ShouldUnsubscribe(self, old) ==
    \/ self.unsubscribed /\ ~old.unsubscribed
    \/ old.subscribed /\ ~self.subscribed

\* ExistingTransition taking both flags false as a request for pending.
ExistingTransition_PendingAllowed(self, old, now) ==
    IF ~self.subscribed /\ ~self.unsubscribed
    THEN [obj |-> self, ok |-> TRUE]
    ELSE IF ShouldSubscribe(self, old)
    THEN LET after == _subscribe(self, now)
         IN [obj |-> after, ok |-> ~after.unsubscribed /\ after.subscribed]
    ELSE IF ShouldUnsubscribe(self, old)
    THEN LET after == _unsubscribe(self, now)
         IN [obj |-> after, ok |-> ~after.subscribed /\ after.unsubscribed]
    ELSE [obj |-> self, ok |-> TRUE]

\* ExistingTransition without its elif branch.
ExistingTransition_NoUnsubscribe(self, old, now) ==
    IF ShouldSubscribe(self, old)
    THEN LET after == _subscribe(self, now)
         IN [obj |-> after, ok |-> ~after.unsubscribed /\ after.subscribed]
    ELSE [obj |-> self, ok |-> TRUE]

\* The branch of save() for an instance with a pk: old is the row fetched
\* from storage by that pk.  ok is whether the asserts that follow
\* _subscribe and _unsubscribe hold.
ExistingTransition(self, old, now) ==
    IF ShouldSubscribe(self, old)
    THEN LET after == _subscribe(self, now)
         IN [obj |-> after, ok |-> ~after.unsubscribed /\ after.subscribed]
    ELSE IF ShouldUnsubscribe(self, old)
    THEN LET after == _unsubscribe(self, now)
         IN [obj |-> after, ok |-> ~after.subscribed /\ after.unsubscribed]
    ELSE [obj |-> self, ok |-> TRUE]

\* NewTransition testing unsubscribed before subscribed.
NewTransition_UnsubscribedFirst(self, now) ==
    IF self.unsubscribed THEN _unsubscribe(self, now)
    ELSE IF self.subscribed THEN _subscribe(self, now)
    ELSE self

\* The branch of save() for an instance without a pk.
NewTransition(self, now) ==
    IF self.subscribed THEN _subscribe(self, now)
    ELSE IF self.unsubscribed THEN _unsubscribe(self, now)
    ELSE self

\* WriteThrough storing the flags alone: the row keeps its stored dates.
WriteThrough_FlagsOnly(self, db, nextPk) ==
    IF self.pk = 0
    THEN LET stored == [self EXCEPT !.pk = nextPk]
         IN [ok |-> TRUE, obj |-> stored,
             db |-> [p \in DOMAIN db \cup {nextPk} |->
                        IF p = nextPk THEN RowOf(stored) ELSE db[p]],
             nextPk |-> nextPk + 1]
    ELSE [ok |-> TRUE, obj |-> self,
          db |-> [db EXCEPT ![self.pk].subscribed = self.subscribed,
                            ![self.pk].unsubscribed = self.unsubscribed],
          nextPk |-> nextPk]

\* super().save(): the write.  An instance without a pk is inserted under
\* the table's next key, which it then carries; an instance with a pk
\* overwrites every column of its row with the instance's values.
WriteThrough(self, db, nextPk) ==
    IF self.pk = 0
    THEN LET stored == [self EXCEPT !.pk = nextPk]
         IN [ok |-> TRUE, obj |-> stored,
             db |-> [p \in DOMAIN db \cup {nextPk} |->
                        IF p = nextPk THEN RowOf(stored) ELSE db[p]],
             nextPk |-> nextPk + 1]
    ELSE [ok |-> TRUE, obj |-> self,
          db |-> [db EXCEPT ![self.pk] = RowOf(self)],
          nextPk |-> nextPk]

\* A call that raised: storage is as it was, the instance is as the hook
\* left it.
Raised(self, db, nextPk) ==
    [ok |-> FALSE, obj |-> self, db |-> db, nextPk |-> nextPk]

\* save without the assert on the row count: an instance whose row is gone
\* goes the way of a new one and is written back under its pk.
save_Recreates(self, db, nextPk, now, dbOk) ==
    IF ~IdentityOk(self) THEN Raised(self, db, nextPk)
    ELSE IF self.pk # 0 /\ PkResolves(self, db)
    THEN LET old == Fetch(db, self.pk)
             t == ExistingTransition(self, old, now)
         IN IF t.ok /\ dbOk THEN WriteThrough(t.obj, db, nextPk)
            ELSE Raised(t.obj, db, nextPk)
    ELSE IF self.pk # 0
    THEN LET after == NewTransition(self, now)
         IN [ok |-> TRUE, obj |-> after,
             db |-> [p \in DOMAIN db \cup {self.pk} |->
                        IF p = self.pk THEN RowOf(after) ELSE db[p]],
             nextPk |-> nextPk]
    ELSE LET after == NewTransition(self, now)
         IN IF dbOk THEN WriteThrough(after, db, nextPk)
            ELSE Raised(after, db, nextPk)

\* Subscription.save().  dbOk is whether the storage write goes through
\* (the database may refuse or fail a write).
save(self, db, nextPk, now, dbOk) ==
    IF ~IdentityOk(self) THEN Raised(self, db, nextPk)
    ELSE IF self.pk # 0
    THEN IF ~PkResolves(self, db) THEN Raised(self, db, nextPk)
         ELSE LET old == Fetch(db, self.pk)
                  t == ExistingTransition(self, old, now)
              IN IF t.ok /\ dbOk THEN WriteThrough(t.obj, db, nextPk)
                 ELSE Raised(t.obj, db, nextPk)
    ELSE LET after == NewTransition(self, now)
         IN IF dbOk THEN WriteThrough(after, db, nextPk)
            ELSE Raised(after, db, nextPk)

\* ---------------------------------------------------- Subscription.update

UpdateActions == {"subscribe", "update", "unsubscribe"}

\* The flag update() sets before it saves.
Requested(self, action) ==
    IF action = "subscribe" \/ action = "update"
    THEN [self EXCEPT !.subscribed = TRUE]
    ELSE [self EXCEPT !.unsubscribed = TRUE]

\* update setting the flag before it looks at the token.
update_SetsFirst(self, action, db, nextPk, now, dbOk) ==
    IF action \notin UpdateActions
    THEN Raised(Requested(self, action), db, nextPk)
    ELSE save(Requested(self, action), db, nextPk, now, dbOk)

\* Subscription.update(action): assert the token, set the flag, save.
update(self, action, db, nextPk, now, dbOk) ==
    IF action \notin UpdateActions THEN Raised(self, db, nextPk)
    ELSE save(Requested(self, action), db, nextPk, now, dbOk)

\* ------------------------------------------------------------------ state

VARIABLES
    objs,      \* the in-memory instances, by handle
    db,        \* the subscription table: pk -> row
    nextPk,    \* the key the next insert gets
    clock,     \* what now() returns
    session,   \* request.session: <<>> or <<the mapping under 'addresses'>>
    uploaded,  \* history: an upload has stored a mapping in the session
    attempts,  \* history: persist attempts on the latest uploaded mapping
    calls,     \* per instance, the save() a caller has running on it
    mail,      \* the templates on disk and the last activation email
    last       \* history: the last call or request and what it started from

vars == <<objs, db, nextPk, clock, session, uploaded, attempts, calls, mail,
          last>>

importVars == <<session, uploaded, attempts>>

\* What the instance and import actions leave alone.
otherVars == <<calls, mail>>

\* The identity callers construct instances with unless they choose one.
DefaultUser == None
DefaultEmail == "a@x"

Idle == [op |-> "none"]

\* No save() is running on an instance.
NoCall == [pc |-> "idle"]

\* No template on disk, no activation email sent.
NoMail == [templates |-> {}, send_html |-> FALSE, sent |-> <<>>]

Init ==
    /\ objs = [o \in Objs |-> NewSubscription(DefaultUser, DefaultEmail)]
    /\ db = <<>>
    /\ nextPk = 1
    /\ clock = 1
    /\ session = <<>>
    /\ uploaded = FALSE
    /\ attempts = 0
    /\ calls = [o \in Objs |-> NoCall]
    /\ mail = NoMail
    /\ last = Idle

Flags(r) == <<r.subscribed, r.unsubscribed>>

\* What a save() records of itself: the flags it was asked to store (req)
\* and the stored flags it compared them with (old, empty when the
\* instance's pk names no row).
CallRecord(op, o, action, self, r) ==
    [op |-> op, o |-> o, action |-> action, ok |-> r.ok,
     req |-> Flags(self),
     old |-> IF self.pk \in DOMAIN db THEN Flags(db[self.pk]) ELSE <<>>]

\* A caller constructs a new instance.
Construct(o, user, email) ==
    /\ objs[o] # NewSubscription(user, email)
    /\ objs' = [objs EXCEPT ![o] = NewSubscription(user, email)]
    /\ last' = Idle
    /\ UNCHANGED <<db, nextPk, clock, importVars, otherVars>>

New(o) == Construct(o, DefaultUser, DefaultEmail)

\* A caller loads the row with key pk.
Load(o, pk) ==
    /\ pk \in DOMAIN db
    /\ objs[o] # Fetch(db, pk)
    /\ objs' = [objs EXCEPT ![o] = Fetch(db, pk)]
    /\ last' = Idle
    /\ UNCHANGED <<db, nextPk, clock, importVars, otherVars>>

\* A caller assigns the two flags of an instance.
Assign(o, s, u) ==
    /\ Flags(objs[o]) # <<s, u>>
    /\ objs' = [objs EXCEPT ![o].subscribed = s, ![o].unsubscribed = u]
    /\ last' = Idle
    /\ UNCHANGED <<db, nextPk, clock, importVars, otherVars>>

\* A caller assigns the identity columns of an instance.
AssignIdentity(o, user, email) ==
    /\ <<objs[o].user, objs[o].email_field>> # <<user, email>>
    /\ objs' = [objs EXCEPT ![o].user = user, ![o].email_field = email]
    /\ last' = Idle
    /\ UNCHANGED <<db, nextPk, clock, importVars, otherVars>>

\* Inserts stop when the table's keys run out.
CanInsert(o) == objs[o].pk # 0 \/ nextPk \in Pks

Apply(o, r) ==
    /\ objs' = [objs EXCEPT ![o] = r.obj]
    /\ db' = r.db
    /\ nextPk' = r.nextPk
    /\ UNCHANGED <<clock, importVars, otherVars>>

\* instance.save(), the storage accepting the write.
Save(o) ==
    /\ CanInsert(o)
    /\ LET r == save(objs[o], db, nextPk, clock, TRUE)
       IN Apply(o, r) /\ last' = CallRecord("save", o, "", objs[o], r)

\* instance.update(action), the storage accepting the write.
Update(o, action) ==
    /\ CanInsert(o)
    /\ LET r == update(objs[o], action, db, nextPk, clock, TRUE)
       IN /\ Apply(o, r)
          /\ last' = CallRecord("update", o, action,
                        IF action \in UpdateActions
                        THEN Requested(objs[o], action) ELSE objs[o], r)

Tick ==
    /\ clock < MaxTime
    /\ clock' = clock + 1
    /\ last' = Idle
    /\ UNCHANGED <<objs, db, nextPk, importVars, otherVars>>

\* The tokens callers pass to update(): the three it knows and one it does
\* not.
Tokens == UpdateActions \cup {"resubscribe"}

Next ==
    \/ \E o \in Objs : New(o)
    \/ \E o \in Objs, pk \in Pks : Load(o, pk)
    \/ \E o \in Objs, s \in BOOLEAN, u \in BOOLEAN : Assign(o, s, u)
    \/ \E o \in Objs : Save(o)
    \/ \E o \in Objs, a \in Tokens : Update(o, a)
    \/ Tick

\* Instances saved and updated through save() and update() alone.
Spec == Init /\ [][Next]_vars

\* -------------------------------------------------- admin bulk actions

\* queryset.update(subscribed=value): one UPDATE statement over the selected
\* rows, which sets that column and nothing else and does not call save().
QuerysetUpdate(table, selected, value) ==
    [p \in DOMAIN table |->
        IF p \in selected THEN [table[p] EXCEPT !.subscribed = value]
        ELSE table[p]]

\* SubscriptionAdmin.make_subscribed
MakeSubscribed(selected) ==
    /\ selected \subseteq DOMAIN db
    /\ db' = QuerysetUpdate(db, selected, TRUE)
    /\ last' = [op |-> "make_subscribed", selected |-> selected,
                rows_updated |-> Cardinality(selected)]
    /\ UNCHANGED <<objs, nextPk, clock, importVars, otherVars>>

\* SubscriptionAdmin.make_unsubscribed
MakeUnsubscribed(selected) ==
    /\ selected \subseteq DOMAIN db
    /\ db' = QuerysetUpdate(db, selected, FALSE)
    /\ last' = [op |-> "make_unsubscribed", selected |-> selected,
                rows_updated |-> Cardinality(selected)]
    /\ UNCHANGED <<objs, nextPk, clock, importVars, otherVars>>

\* One instance, saved and updated through save() and update(), and the
\* admin's bulk actions on the table.
NextAdmin ==
    \/ New("o1")
    \/ \E pk \in Pks : Load("o1", pk)
    \/ \E s \in BOOLEAN, u \in BOOLEAN : Assign("o1", s, u)
    \/ Save("o1")
    \/ \E a \in Tokens : Update("o1", a)
    \/ Tick
    \/ \E selected \in SUBSET Pks : MakeSubscribed(selected)
    \/ \E selected \in SUBSET Pks : MakeUnsubscribed(selected)

SpecAdmin == Init /\ [][NextAdmin]_vars

\* ------------------------------------------- instances of any identity

\* One instance whose caller is free to set user and email_field to
\* anything the columns admit.
NextIdentity ==
    \/ \E user \in Users, email \in Emails : Construct("o1", user, email)
    \/ \E user \in Users, email \in Emails : AssignIdentity("o1", user, email)
    \/ \E pk \in Pks : Load("o1", pk)
    \/ \E s \in BOOLEAN, u \in BOOLEAN : Assign("o1", s, u)
    \/ Save("o1")
    \/ \E a \in Tokens : Update("o1", a)
    \/ Tick

SpecIdentity == Init /\ [][NextIdentity]_vars

\* --------------------------------------------------- admin bulk import

\* What a browser sends to a view: a GET, a POST without data, a POST whose
\* form does not validate, a POST whose form validates.
Requests == {"GET", "POST_EMPTY", "POST_INVALID", "POST_VALID"}

\* `if request.POST:` is true of a POST that carries data.
HasPost(req) == req \in {"POST_INVALID", "POST_VALID"}

\* form.is_valid()
IsValid(req) == req = "POST_VALID"

\* An entry of a parsed mapping: an unsaved instance holding an address.
ParsedEntry(s) ==
    [NewSubscription(None, DefaultEmail) EXCEPT !.subscribed = s]

\* form.get_addresses(): the mappings an upload can parse to, as the
\* sequence addresses.values() iterates over.
ParsedMappings ==
    UNION {[1..n -> {ParsedEntry(s) : s \in BOOLEAN}] : n \in 0..MaxAddr}

HasAddresses(sess) == sess # <<>>

\* PersistFrom with a loop that stops one entry short.
RECURSIVE PersistFrom_SkipsLast(_, _, _, _, _, _)
PersistFrom_SkipsLast(addresses, i, table, key, now, failAt) ==
    IF i >= Len(addresses) THEN [ok |-> TRUE, db |-> table, nextPk |-> key]
    ELSE LET r == save(addresses[i], table, key, now, i # failAt)
         IN IF r.ok
            THEN PersistFrom_SkipsLast(addresses, i + 1, r.db, r.nextPk, now,
                                       failAt)
            ELSE [ok |-> FALSE, db |-> r.db, nextPk |-> r.nextPk]

\* The loop `for address in addresses.values(): address.save()` from entry
\* i on: the write of entry failAt is the one the storage fails (0: none).
\* It stops at the first save that raises.
RECURSIVE PersistFrom(_, _, _, _, _, _)
PersistFrom(addresses, i, table, key, now, failAt) ==
    IF i > Len(addresses) THEN [ok |-> TRUE, db |-> table, nextPk |-> key]
    ELSE LET r == save(addresses[i], table, key, now, i # failAt)
         IN IF r.ok
            THEN PersistFrom(addresses, i + 1, r.db, r.nextPk, now, failAt)
            ELSE [ok |-> FALSE, db |-> r.db, nextPk |-> r.nextPk]

\* ConfirmValid with the del after the loop instead of in a finally: a loop
\* that raises leaves the session as it was.
ConfirmValid_NoFinally(sess, table, key, now, failAt) ==
    LET addresses == sess[1]
        r == PersistFrom(addresses, 1, table, key, now, failAt)
    IN [session |-> IF r.ok THEN <<>> ELSE sess,
        db |-> r.db, nextPk |-> r.nextPk,
        status |-> IF r.ok THEN "redirect ../../" ELSE "raised",
        message |-> IF r.ok THEN <<Len(addresses)>> ELSE <<>>]

\* ConfirmValid with the loop in a transaction: a loop that raises leaves
\* the table as it was.
ConfirmValid_Transactional(sess, table, key, now, failAt) ==
    LET addresses == sess[1]
        r == PersistFrom(addresses, 1, table, key, now, failAt)
    IN [session |-> <<>>,
        db |-> IF r.ok THEN r.db ELSE table,
        nextPk |-> IF r.ok THEN r.nextPk ELSE key,
        status |-> IF r.ok THEN "redirect ../../" ELSE "raised",
        message |-> IF r.ok THEN <<Len(addresses)>> ELSE <<>>]

\* The try/finally of subscribers_import_confirm and what follows it: the
\* session after the loop, and the response (none when the loop raised).
ConfirmValid(sess, table, key, now, failAt) ==
    LET addresses == sess[1]
        r == PersistFrom(addresses, 1, table, key, now, failAt)
    IN [session |-> <<>>, db |-> r.db, nextPk |-> r.nextPk,
        status |-> IF r.ok THEN "redirect ../../" ELSE "raised",
        message |-> IF r.ok THEN <<Len(addresses)>> ELSE <<>>]

\* subscribers_import_confirm with the session test on the GET path alone:
\* a POST reads request.session['addresses'] without it and raises.
subscribers_import_confirm_GetOnly(sess, table, key, now, req, failAt) ==
    IF ~HasAddresses(sess)
    THEN [session |-> sess, db |-> table, nextPk |-> key,
          status |-> IF HasPost(req) THEN "raised" ELSE "redirect ../",
          message |-> <<>>]
    ELSE IF HasPost(req) /\ IsValid(req)
    THEN ConfirmValid(sess, table, key, now, failAt)
    ELSE [session |-> sess, db |-> table, nextPk |-> key,
          status |-> "render confirmimportform", message |-> <<>>]

\* SubscriptionAdmin.subscribers_import_confirm
subscribers_import_confirm(sess, table, key, now, req, failAt) ==
    IF ~HasAddresses(sess)
    THEN [session |-> sess, db |-> table, nextPk |-> key,
          status |-> "redirect ../", message |-> <<>>]
    ELSE IF HasPost(req) /\ IsValid(req)
    THEN ConfirmValid(sess, table, key, now, failAt)
    ELSE [session |-> sess, db |-> table, nextPk |-> key,
          status |-> "render confirmimportform", message |-> <<>>]

\* subscribers_import dropping the session's mapping when the form does
\* not validate.
subscribers_import_ClearsOnInvalid(sess, req, parsed) ==
    IF HasPost(req)
    THEN IF IsValid(req)
         THEN [session |-> <<parsed>>, status |-> "redirect confirm/",
               form |-> "bound"]
         ELSE [session |-> <<>>, status |-> "render importform",
               form |-> "bound"]
    ELSE [session |-> sess, status |-> "render importform",
          form |-> "blank"]

\* SubscriptionAdmin.subscribers_import.  form is the form the view ends
\* with: bound to the submitted data, or blank.
subscribers_import(sess, req, parsed) ==
    IF HasPost(req)
    THEN IF IsValid(req)
         THEN [session |-> <<parsed>>, status |-> "redirect confirm/",
               form |-> "bound"]
         ELSE [session |-> sess, status |-> "render importform",
               form |-> "bound"]
    ELSE [session |-> sess, status |-> "render importform",
          form |-> "blank"]

\* A request to import/.
SubscribersImport(req, parsed) ==
    /\ LET r == subscribers_import(session, req, parsed)
       IN /\ session' = r.session
          /\ uploaded' = (uploaded \/ r.status = "redirect confirm/")
          /\ attempts' = IF r.status = "redirect confirm/" THEN 0
                         ELSE attempts
          /\ last' = [op |-> "import", req |-> req, status |-> r.status,
                      form |-> r.form,
                      parsed |-> IF HasPost(req) /\ IsValid(req)
                                 THEN parsed ELSE <<>>]
    /\ UNCHANGED <<objs, db, nextPk, clock, otherVars>>

\* The rows the import may still create.
RoomFor(n) == Cardinality(DOMAIN db) + n <= MaxRows

\* A request to import/confirm/.  failAt matters to a request that persists
\* and is 0 for any other.
SubscribersImportConfirm(req, failAt) ==
    LET persisting == HasAddresses(session) /\ HasPost(req) /\ IsValid(req)
        r == subscribers_import_confirm(session, db, nextPk, clock, req,
                                        failAt)
    IN /\ IF persisting
          THEN failAt <= Len(session[1]) /\ RoomFor(Len(session[1]))
          ELSE failAt = 0
       /\ session' = r.session
       /\ db' = r.db
       /\ nextPk' = r.nextPk
       /\ attempts' = IF persisting THEN attempts + 1 ELSE attempts
       /\ last' = [op |-> "confirm", req |-> req, status |-> r.status,
                   message |-> r.message, failAt |-> failAt]
       /\ UNCHANGED <<objs, clock, uploaded, otherVars>>

NextImport ==
    \/ \E req \in Requests, parsed \in ParsedMappings :
          SubscribersImport(req, parsed)
    \/ \E req \in Requests, failAt \in 0..MaxAddr :
          SubscribersImportConfirm(req, failAt)
    \/ Tick

\* One admin session going through the import views, one request at a time.
SpecImport == Init /\ [][NextImport]_vars

\* ---------------------------------------------- concurrent save() calls

\* SaveHook without the branch for an instance with a pk: the flags asked
\* for are stored as they are.
SaveHook_Unchecked(self, table, now) ==
    IF ~IdentityOk(self) \/ (self.pk # 0 /\ ~PkResolves(self, table))
    THEN [ok |-> FALSE, obj |-> self, old |-> <<>>, moved |-> "none"]
    ELSE IF self.pk # 0
    THEN [ok |-> TRUE, obj |-> self, old |-> Flags(Fetch(table, self.pk)),
          moved |-> "none"]
    ELSE [ok |-> TRUE, obj |-> NewTransition(self, now), old |-> <<>>,
          moved |-> "none"]

\* save() up to super().save(): the asserts, the read of the stored row and
\* the transition decided from it.  old is the stored flags the call read,
\* moved the transition it applied to the instance.
SaveHook(self, table, now) ==
    IF ~IdentityOk(self) \/ (self.pk # 0 /\ ~PkResolves(self, table))
    THEN [ok |-> FALSE, obj |-> self, old |-> <<>>, moved |-> "none"]
    ELSE IF self.pk # 0
    THEN LET old == Fetch(table, self.pk)
             t == ExistingTransition(self, old, now)
         IN [ok |-> t.ok, obj |-> t.obj, old |-> Flags(old),
             moved |-> IF ShouldSubscribe(self, old) THEN "subscribe"
                       ELSE IF ShouldUnsubscribe(self, old)
                       THEN "unsubscribe" ELSE "none"]
    ELSE [ok |-> TRUE, obj |-> NewTransition(self, now), old |-> <<>>,
          moved |-> IF self.subscribed THEN "subscribe"
                    ELSE IF self.unsubscribed THEN "unsubscribe"
                    ELSE "none"]

\* The caller of instance o is between two calls.
Free(o) == calls[o].pc # "write"

\* One insert at a time, while the table has a key left.
CanStart(o) ==
    /\ CanInsert(o)
    /\ objs[o].pk = 0 =>
          \A p \in Objs \ {o} : ~(calls[p].pc = "write" /\ objs[p].pk = 0)

\* The first step of instance.save(): everything before super().save().
\* Another request may run between this step and the write.
SaveRead(o) ==
    /\ Free(o)
    /\ CanStart(o)
    /\ LET r == SaveHook(objs[o], db, clock)
       IN /\ objs' = [objs EXCEPT ![o] = r.obj]
          /\ calls' = [calls EXCEPT ![o] =
                          IF r.ok
                          THEN [pc |-> "write", req |-> Flags(objs[o]),
                                old |-> r.old, moved |-> r.moved]
                          ELSE NoCall]
          /\ last' = [op |-> "save_read", o |-> o, ok |-> r.ok]
    /\ UNCHANGED <<db, nextPk, clock, importVars, mail>>

\* The second step of instance.save(): super().save().  The step records
\* what the call asked for (req), read (old) and applied (moved), and the
\* stored flags its write replaces (over).
SaveWrite(o) ==
    /\ calls[o].pc = "write"
    /\ LET w == WriteThrough(objs[o], db, nextPk)
       IN /\ objs' = [objs EXCEPT ![o] = w.obj]
          /\ db' = w.db
          /\ nextPk' = w.nextPk
          /\ calls' = [calls EXCEPT ![o] = NoCall]
          /\ last' = [op |-> "save_write", o |-> o, ok |-> w.ok,
                      req |-> calls[o].req, old |-> calls[o].old,
                      moved |-> calls[o].moved,
                      over |-> IF objs[o].pk \in DOMAIN db
                               THEN Flags(db[objs[o].pk]) ELSE <<>>]
    /\ UNCHANGED <<clock, importVars, mail>>

\* Two callers, each with its own instance, whose save() calls on one row
\* interleave: between the read and the write of one, the other may read
\* and write.
NextRace ==
    \/ \E o \in Objs : SaveRead(o)
    \/ \E o \in Objs : SaveWrite(o)
    \/ \E o \in Objs, pk \in Pks : Free(o) /\ Load(o, pk)
    \/ \E o \in Objs, s \in BOOLEAN, u \in BOOLEAN : Free(o) /\ Assign(o, s, u)
    \/ Tick

SpecRace == Init /\ [][NextRace]_vars

\* ------------------------------------------------- activation emails

\* utils.ACTIONS, the tokens an activation email is sent for (ACTIONS is
\* a reserved word here).
Actions == {"subscribe", "unsubscribe", "update"}

\* The newsletter the subscriptions belong to.
Slug == "weekly"

\* "Common root path for all the templates"
tpl_root == "newsletter/message/"

\* The three kinds of template an email is made of, by file suffix.
Suffixes == {"_subject.txt", ".txt", ".html"}

\* The two names get_templates hands to select_template, in its order:
\* the newsletter's own template, then the default.
TemplateNames(slug, action, suffix) ==
    <<tpl_root \o slug \o "/" \o action \o suffix,
      tpl_root \o action \o suffix>>

\* Every template file an activation email of the newsletter may use.
AllTemplates ==
    {TemplateNames(Slug, a, x)[i] : a \in Actions, x \in Suffixes, i \in 1..2}

\* django.template.loader.select_template: the first name of the list that
\* is on disk; None stands for TemplateDoesNotExist.
select_template(names, disk) ==
    LET found == {i \in 1..Len(names) : names[i] \in disk}
    IN IF found = {} THEN None
       ELSE names[CHOOSE i \in found : \A j \in found : i <= j]

\* get_templates choosing one directory for the three templates: the
\* newsletter's own when its subject template is there, else the default.
get_templates_OneDirectory(self, action, disk) ==
    IF action \notin Actions \cup {"message"}
    THEN [ok |-> FALSE, subject |-> None, text |-> None, html |-> None]
    ELSE LET own == TemplateNames(self.slug, action, "_subject.txt")[1]
                        \in disk
             Only(suffix) ==
                 LET names == TemplateNames(self.slug, action, suffix)
                 IN select_template(IF own THEN <<names[1]>>
                                    ELSE <<names[2]>>, disk)
             subject_template == Only("_subject.txt")
             text_template == Only(".txt")
             html_template == IF self.send_html THEN Only(".html") ELSE None
         IN [ok |-> /\ subject_template # None /\ text_template # None
                    /\ self.send_html => html_template # None,
             subject |-> subject_template, text |-> text_template,
             html |-> html_template]

\* Newsletter.get_templates.  ok is false when the assert or one of the
\* select_template calls raises.
get_templates(self, action, disk) ==
    IF action \notin Actions \cup {"message"}
    THEN [ok |-> FALSE, subject |-> None, text |-> None, html |-> None]
    ELSE LET subject_template ==
                 select_template(
                     TemplateNames(self.slug, action, "_subject.txt"), disk)
             text_template ==
                 select_template(
                     TemplateNames(self.slug, action, ".txt"), disk)
             html_template ==
                 IF self.send_html
                 THEN select_template(
                          TemplateNames(self.slug, action, ".html"), disk)
                 ELSE None
         IN [ok |-> /\ subject_template # None /\ text_template # None
                    /\ self.send_html => html_template # None,
             subject |-> subject_template, text |-> text_template,
             html |-> html_template]

\* Subscription.send_activation_email: the message sent, each part named
\* by the template it is rendered from; alternatives holds the HTML part.
send_activation_email(newsletter, action, disk) ==
    IF action \notin Actions
    THEN [ok |-> FALSE, action |-> action]
    ELSE LET t == get_templates(newsletter, action, disk)
         IN IF ~t.ok THEN [ok |-> FALSE, action |-> action]
            ELSE [ok |-> TRUE, action |-> action,
                  subject |-> t.subject, body |-> t.text,
                  alternatives |-> IF t.html # None THEN <<t.html>>
                                   ELSE <<>>]

\* The newsletter and the template files on disk are any within the bounds.
InitTemplates ==
    /\ objs = [o \in Objs |-> NewSubscription(DefaultUser, DefaultEmail)]
    /\ db = <<>>
    /\ nextPk = 1
    /\ clock = 1
    /\ session = <<>>
    /\ uploaded = FALSE
    /\ attempts = 0
    /\ calls = [o \in Objs |-> NoCall]
    /\ \E disk \in SUBSET AllTemplates, html \in BOOLEAN :
          /\ Cardinality(disk) <= MaxTemplates
          /\ mail = [templates |-> disk, send_html |-> html, sent |-> <<>>]
    /\ last = Idle

\* The tokens send_activation_email is called with: utils.ACTIONS and one
\* that only get_templates accepts.
MailTokens == Actions \cup {"message"}

\* subscription.send_activation_email(action)
SendActivationEmail(action) ==
    /\ mail' = [mail EXCEPT !.sent =
                   send_activation_email(
                       [slug |-> Slug, send_html |-> mail.send_html],
                       action, mail.templates)]
    /\ last' = [op |-> "send_activation_email", action |-> action]
    /\ UNCHANGED <<objs, db, nextPk, clock, importVars, calls>>

NextTemplates == \E action \in MailTokens : SendActivationEmail(action)

SpecTemplates == InitTemplates /\ [][NextTemplates]_vars

\* ------------------------------------------------------ deleted rows

\* Another request deletes the row with key pk (the admin's delete view or
\* its delete_selected action).
Delete(pk) ==
    /\ pk \in DOMAIN db
    /\ db' = [p \in DOMAIN db \ {pk} |-> db[p]]
    /\ last' = [op |-> "delete", pk |-> pk]
    /\ UNCHANGED <<objs, nextPk, clock, importVars, otherVars>>

\* One instance, saved and updated, whose row may be deleted under it.
NextDelete ==
    \/ \E pk \in Pks : Load("o1", pk)
    \/ \E s \in BOOLEAN, u \in BOOLEAN : Assign("o1", s, u)
    \/ Save("o1")
    \/ \E a \in Tokens : Update("o1", a)
    \/ Tick
    \/ \E pk \in Pks : Delete(pk)

SpecDelete == Init /\ [][NextDelete]_vars

\* ------------------------------------------- calls on fresh instances

\* The instance a caller starts from: a new Subscription when pk is 0, else
\* the row with key pk as it is stored now; the caller then sets the two
\* flags and nothing else.
FreshWith(pk, s, u) ==
    LET loaded == IF pk = 0 THEN NewSubscription(DefaultUser, DefaultEmail)
                  ELSE Fetch(db, pk)
    IN [loaded EXCEPT !.subscribed = s, !.unsubscribed = u]

\* A new instance can be started while the table has a key left, a stored
\* one while its row is there.
CanStartFrom(pk) ==
    IF pk = 0 THEN nextPk \in Pks ELSE pk \in DOMAIN db

\* A caller loads (or constructs) an instance, sets its flags and calls
\* save(), with no other call in between.
FreshSave(o, pk, s, u) ==
    /\ CanStartFrom(pk)
    /\ LET self == FreshWith(pk, s, u)
           r == save(self, db, nextPk, clock, TRUE)
       IN Apply(o, r) /\ last' = CallRecord("save", o, "", self, r)

\* A caller loads (or constructs) an instance, sets its flags and calls
\* update(action), with no other call in between.
FreshUpdate(o, pk, s, u, action) ==
    /\ CanStartFrom(pk)
    /\ LET self == FreshWith(pk, s, u)
           r == update(self, action, db, nextPk, clock, TRUE)
       IN /\ Apply(o, r)
          /\ last' = CallRecord("update", o, action,
                        IF action \in UpdateActions
                        THEN Requested(self, action) ELSE self, r)

\* Every call is made on an instance that is new or just loaded.
NextFresh ==
    \/ \E pk \in Pks \cup {0}, s \in BOOLEAN, u \in BOOLEAN :
          FreshSave("o1", pk, s, u)
    \/ \E pk \in Pks \cup {0}, s \in BOOLEAN, u \in BOOLEAN, a \in Tokens :
          FreshUpdate("o1", pk, s, u, a)
    \/ Tick

SpecFresh == Init /\ [][NextFresh]_vars

\* ----------------------------------------------------------------- claims

\* The step just taken was a call of op on instance o.
Called(op, o) == last'.op = op /\ last'.o = o

\* The step just taken was a request to import/confirm/.
Confirmed == last'.op = "confirm"

\* C1: through save() and update() alone, starting from an empty table, no
\* stored row ever has subscribed and unsubscribed both true.
C1_NeverBothFlags ==
    \A pk \in DOMAIN db : ~(db[pk].subscribed /\ db[pk].unsubscribed)

\* A save() of an existing record asked to store both flags true went
\* through.
C1_Witness ==
    /\ last.op = "save" /\ last.ok
    /\ last.req = <<TRUE, TRUE>> /\ last.old # <<>>
    /\ C1_NeverBothFlags

\* C2: a successful save() of an existing record, with old the row stored at
\* the moment of the save and new the instance: it stores subscribed=true,
\* unsubscribed=false, subscribe_date=save time exactly when (new.subscribed
\* and not old.subscribed) or (old.unsubscribed and not new.unsubscribed);
\* else subscribed=false, unsubscribed=true, unsubscribe_date=save time
\* exactly when (new.unsubscribed and not old.unsubscribed) or
\* (old.subscribed and not new.subscribed); else the caller's flags.  Every
\* other column is stored as the instance holds it.
C2_ExistingSave ==
    [][\A o \in Objs :
          (Called("save", o) /\ last'.ok /\ objs[o].pk # 0) =>
             LET new == objs[o]
                 old == db[new.pk]
                 row == db'[new.pk]
                 toSub == \/ new.subscribed /\ ~old.subscribed
                          \/ old.unsubscribed /\ ~new.unsubscribed
                 toUnsub == \/ new.unsubscribed /\ ~old.unsubscribed
                            \/ old.subscribed /\ ~new.subscribed
             IN IF toSub
                THEN /\ Flags(row) = <<TRUE, FALSE>>
                     /\ row.subscribe_date = clock
                     /\ row.unsubscribe_date = new.unsubscribe_date
                ELSE IF toUnsub
                THEN /\ Flags(row) = <<FALSE, TRUE>>
                     /\ row.unsubscribe_date = clock
                     /\ row.subscribe_date = new.subscribe_date
                ELSE /\ Flags(row) = Flags(new)
                     /\ row.subscribe_date = new.subscribe_date
                     /\ row.unsubscribe_date = new.unsubscribe_date
      ]_vars

\* A record unsubscribed at time 1 was saved as subscribed at time 2: it
\* carries the new subscribe_date and unsubscribed is cleared.
C2_Witness ==
    /\ last.op = "save" /\ last.ok
    /\ last.old = <<FALSE, TRUE>> /\ last.req = <<TRUE, FALSE>>
    /\ clock = 2
    /\ LET row == db[objs[last.o].pk]
       IN /\ Flags(row) = <<TRUE, FALSE>>
          /\ row.subscribe_date = 2 /\ row.unsubscribe_date = 1

\* C3: a successful save() of a new record (no pk) inserts one row: if
\* subscribed is requested, whatever unsubscribed is, subscribed=true,
\* unsubscribed=false, subscribe_date=save time; else if unsubscribed is
\* requested, unsubscribed=true, subscribed=false, unsubscribe_date=save
\* time; else both flags false; and no timestamp but the one named is set.
C3_NewSave ==
    [][\A o \in Objs :
          (Called("save", o) /\ last'.ok /\ objs[o].pk = 0) =>
             /\ objs'[o].pk \in DOMAIN db' \ DOMAIN db
             /\ LET new == objs[o]
                    row == db'[objs'[o].pk]
                IN IF new.subscribed
                   THEN /\ Flags(row) = <<TRUE, FALSE>>
                        /\ row.subscribe_date = clock
                        /\ row.unsubscribe_date = new.unsubscribe_date
                   ELSE IF new.unsubscribed
                   THEN /\ Flags(row) = <<FALSE, TRUE>>
                        /\ row.unsubscribe_date = clock
                        /\ row.subscribe_date = new.subscribe_date
                   ELSE /\ Flags(row) = <<FALSE, FALSE>>
                        /\ row.subscribe_date = new.subscribe_date
                        /\ row.unsubscribe_date = new.unsubscribe_date
      ]_vars

\* A new record asked to store both flags true was stored subscribed.
C3_Witness ==
    /\ last.op = "save" /\ last.ok
    /\ last.old = <<>> /\ last.req = <<TRUE, TRUE>>
    /\ LET row == db[objs[last.o].pk]
       IN /\ Flags(row) = <<TRUE, FALSE>>
          /\ row.subscribe_date = clock /\ row.unsubscribe_date = 0

\* The save() of an existing record whose flags equal the stored flags.
SameFlagsSave(o) ==
    /\ Called("save", o) /\ last'.ok
    /\ objs[o].pk # 0
    /\ Flags(objs[o]) = Flags(db[objs[o].pk])

\* C4 as stated: a save() of an existing record whose in-memory flags equal
\* its stored flags leaves the stored flags and both stored timestamps as
\* they were.
C4_StoredRowUntouched ==
    [][\A o \in Objs :
          SameFlagsSave(o) => db'[objs[o].pk] = db[objs[o].pk]]_vars

\* C4, amended: such a save() performs no transition: the hook leaves the
\* instance's flags and timestamps as they were, the stored flags are the
\* same after the save as before, and the stored timestamps are those of the
\* instance; so the stored row is untouched when the instance's timestamps
\* equal the stored ones.
C4_NoTransition ==
    [][\A o \in Objs :
          SameFlagsSave(o) =>
             LET self == objs[o]
                 old == db[self.pk]
                 row == db'[self.pk]
             IN /\ objs'[o] = self
                /\ Flags(row) = Flags(old)
                /\ row.subscribe_date = self.subscribe_date
                /\ row.unsubscribe_date = self.unsubscribe_date
                /\ (/\ self.subscribe_date = old.subscribe_date
                    /\ self.unsubscribe_date = old.unsubscribe_date)
                      => row = old
      ]_vars

\* A record subscribed at time 1 was saved as subscribed again at time 2 and
\* keeps the subscribe_date of time 1.
C4_Witness ==
    /\ last.op = "save" /\ last.ok
    /\ last.old = <<TRUE, FALSE>> /\ last.req = <<TRUE, FALSE>>
    /\ clock = 2
    /\ db[objs[last.o].pk].subscribe_date = 1
    /\ objs[last.o].subscribe_date = 1

\* user and email_field are both set, or neither is.
BothOrNeither(self) == Truthy(self.user) <=> Truthy(self.email_field)

\* C5: save() of an instance with both a user and an email_field, or with
\* neither, fails and changes nothing: the table and the instance's flags
\* and timestamps are as before the call.
C5_IdentityRejected ==
    [][\A o \in Objs :
          (Called("save", o) /\ BothOrNeither(objs[o])) =>
             /\ ~last'.ok
             /\ db' = db /\ nextPk' = nextPk
             /\ objs' = objs
      ]_vars

\* save() of a loaded record that was given a user besides its email_field
\* has failed, and its row is still there.
C5_Witness ==
    /\ last.op = "save" /\ ~last.ok
    /\ LET self == objs[last.o]
       IN /\ Truthy(self.user) /\ Truthy(self.email_field)
          /\ self.pk \in DOMAIN db
          /\ Flags(self) # Flags(db[self.pk])

\* C6 as stated: update("subscribe") and update("update") leave the same
\* instance and table behind, and after either one succeeds the stored
\* record has subscribed=true.
C6_UpdateSubscribes ==
    [][\A o \in Objs :
          (Called("update", o) /\ last'.action \in {"subscribe", "update"}
             /\ last'.ok) =>
             /\ update(objs[o], "subscribe", db, nextPk, clock, TRUE)
                   = update(objs[o], "update", db, nextPk, clock, TRUE)
             /\ db'[objs'[o].pk].subscribed
      ]_vars

\* The half of C6 that holds: the two tokens leave the same instance and
\* table behind, whatever the instance and the table.
C6_TokensEquivalent ==
    \A o \in Objs :
       update(objs[o], "subscribe", db, nextPk, clock, TRUE)
          = update(objs[o], "update", db, nextPk, clock, TRUE)

\* The row save() stores for a new record e at time now.
NewRecordRow(e, now) ==
    [user |-> e.user, email_field |-> e.email_field,
     subscribed |-> e.subscribed,
     unsubscribed |-> ~e.subscribed /\ e.unsubscribed,
     subscribe_date |-> IF e.subscribed THEN now ELSE e.subscribe_date,
     unsubscribe_date |-> IF ~e.subscribed /\ e.unsubscribed THEN now
                          ELSE e.unsubscribe_date]

\* The step stored the first n entries of the session's mapping as n new
\* rows, each through the new-record path, and touched no other row.
StoredFirst(n) ==
    /\ DOMAIN db' = DOMAIN db \cup {nextPk + k - 1 : k \in 1..n}
    /\ Cardinality(DOMAIN db') = Cardinality(DOMAIN db) + n
    /\ \A k \in 1..n : db'[nextPk + k - 1] = NewRecordRow(session[1][k], clock)
    /\ \A p \in DOMAIN db : db'[p] = db[p]

\* The step was a confirmation POST with a valid form, made while the
\* session held a mapping.
ValidConfirmation ==
    Confirmed /\ HasAddresses(session) /\ last'.req = "POST_VALID"

\* C7: a valid confirmation POST made while the session holds a mapping of N
\* addresses leaves the session without the 'addresses' key whether or not
\* the persist loop succeeded; when no save fails it has saved each of the N
\* entries as a new record, reports N and redirects to the subscription
\* list.
C7_ConfirmPersistsAll ==
    [][ValidConfirmation =>
          /\ ~HasAddresses(session')
          /\ last'.failAt = 0 =>
                /\ StoredFirst(Len(session[1]))
                /\ last'.message = <<Len(session[1])>>
                /\ last'.status = "redirect ../../"
      ]_vars

\* A confirmation of two addresses has stored two rows, reported 2 and
\* redirected to the list, and the session holds no mapping.
C7_Witness ==
    /\ last.op = "confirm" /\ last.req = "POST_VALID"
    /\ last.status = "redirect ../../" /\ last.message = <<2>>
    /\ Cardinality(DOMAIN db) = 2
    /\ ~HasAddresses(session)

\* C8: a request to step 2 made while the session holds no mapping redirects
\* to step 1 and changes neither the table nor the session; a GET, or a
\* POST whose form is not valid, made while it holds one redisplays the
\* addresses and changes neither; and the table holds no row unless an
\* upload succeeded before.
C8_NoImportOutOfOrder ==
    /\ [](DOMAIN db # {} => uploaded)
    /\ [][Confirmed =>
            /\ ~HasAddresses(session) =>
                  /\ last'.status = "redirect ../"
                  /\ db' = db /\ session' = session
            /\ (HasAddresses(session) /\ last'.req # "POST_VALID") =>
                  /\ last'.status = "render confirmimportform"
                  /\ db' = db /\ session' = session
        ]_vars

\* A valid confirmation POST that came before any upload was redirected to
\* step 1 and the table is empty.
C8_Witness ==
    /\ last.op = "confirm" /\ last.req = "POST_VALID"
    /\ last.status = "redirect ../"
    /\ ~uploaded /\ DOMAIN db = {}

\* C9: the mapping of an upload is put to the persist loop at most once:
\* after the attempt, successful or not, the session holds no mapping, and
\* every request to step 2 redirects to step 1 and stores nothing until an
\* upload succeeds again.
C9_NoReplay ==
    /\ [](attempts <= 1 /\ (attempts = 1 => ~HasAddresses(session)))
    /\ [][(Confirmed /\ attempts = 1) =>
            /\ last'.status = "redirect ../"
            /\ db' = db /\ attempts' = attempts
        ]_vars

\* After a persist attempt that raised part-way, a second confirmation POST
\* was redirected to step 1.
C9_Witness ==
    /\ attempts = 1
    /\ last.op = "confirm" /\ last.req = "POST_VALID"
    /\ last.status = "redirect ../"
    /\ Cardinality(DOMAIN db) = 1

\* C10: when the save of entry k of the confirmed mapping fails, the k-1
\* entries before it stay stored, no later entry is stored, the request
\* ends with the exception (no message, no redirect) and the session holds
\* no mapping.
C10_PartialPersist ==
    [][(ValidConfirmation /\ last'.failAt >= 1) =>
          /\ StoredFirst(last'.failAt - 1)
          /\ last'.status = "raised"
          /\ last'.message = <<>>
          /\ ~HasAddresses(session')
      ]_vars

\* The save of the second of two addresses failed: the first is stored, the
\* request raised and the session holds no mapping.
C10_Witness ==
    /\ last.op = "confirm" /\ last.failAt = 2
    /\ last.status = "raised" /\ last.message = <<>>
    /\ Cardinality(DOMAIN db) = 1
    /\ ~HasAddresses(session)

\* C11: two save() calls on one existing record race, the read and the
\* write of each not being one step: whatever the interleaving, the stored
\* row after a write is the row of the save that wrote last; and a save
\* that applied a transition and completed can be missing from the stored
\* row (the witness).
C11_LastWriterWins ==
    last.op = "save_write" =>
        /\ objs[last.o].pk \in DOMAIN db
        /\ db[objs[last.o].pk] = RowOf(objs[last.o])

\* One save() unsubscribed the record, stamping unsubscribe_date, and
\* completed; the other, which had read the row before that write, wrote
\* after it: the stored row is subscribed and has no unsubscribe date.
C11_Witness ==
    \E o \in Objs, p \in Objs :
        /\ o # p
        /\ last.op = "save_write" /\ last.o = p /\ last.ok
        /\ last.old = <<TRUE, FALSE>> /\ last.over = <<FALSE, TRUE>>
        /\ Free(o) /\ objs[o].pk = objs[p].pk
        /\ Flags(objs[o]) = <<FALSE, TRUE>>
        /\ objs[o].unsubscribe_date # 0
        /\ Flags(db[objs[p].pk]) = <<TRUE, FALSE>>
        /\ db[objs[p].pk].unsubscribe_date = 0

\* C12: a request to the upload step never touches the table.  A POST whose
\* form validates stores the parsed mapping under the session's 'addresses'
\* key, in place of any earlier one, and redirects to the confirmation
\* step; a POST whose form does not validate shows the form again and
\* leaves the session as it was, key present or absent; a request without
\* submitted data shows a blank form and leaves the session as it was.
C12_UploadFrame ==
    [][last'.op = "import" =>
         /\ db' = db /\ nextPk' = nextPk /\ objs' = objs
         /\ IF last'.req = "POST_VALID"
            THEN /\ session' = <<last'.parsed>>
                 /\ last'.status = "redirect confirm/"
            ELSE /\ session' = session
                 /\ last'.status = "render importform"
                 /\ last'.form = IF last'.req = "POST_INVALID"
                                 THEN "bound" ELSE "blank"]_vars

\* An upload that did not validate came in while the session held the
\* mapping of an earlier upload.
C12_Witness ==
    /\ last.op = "import" /\ last.req = "POST_INVALID"
    /\ last.status = "render importform"
    /\ HasAddresses(session)

\* The template a part of the email for token a is to come from: the
\* newsletter's own file when it is on disk, the default otherwise.
Expected(a, suffix) ==
    IF ("newsletter/message/weekly/" \o a \o suffix) \in mail.templates
    THEN "newsletter/message/weekly/" \o a \o suffix
    ELSE "newsletter/message/" \o a \o suffix

\* C13: an activation email that is sent takes its subject, its text and
\* its HTML part each from the newsletter's own template when that file
\* exists and from the default template otherwise, one choice not
\* depending on another; a newsletter with send_html false gets no HTML
\* part, whatever HTML templates exist.
C13_TemplateResolution ==
    (mail.sent # <<>> /\ mail.sent.ok) =>
        /\ mail.sent.subject = Expected(mail.sent.action, "_subject.txt")
        /\ mail.sent.subject \in mail.templates
        /\ mail.sent.body = Expected(mail.sent.action, ".txt")
        /\ mail.sent.body \in mail.templates
        /\ IF mail.send_html
           THEN /\ mail.sent.alternatives =
                       <<Expected(mail.sent.action, ".html")>>
                /\ mail.sent.alternatives[1] \in mail.templates
           ELSE mail.sent.alternatives = <<>>

\* An email went out whose subject came from the newsletter's own template
\* and whose text and HTML part came from the defaults.
C13_Witness ==
    /\ mail.sent # <<>> /\ mail.sent.ok /\ mail.send_html
    /\ mail.sent.subject = "newsletter/message/weekly/subscribe_subject.txt"
    /\ mail.sent.body = "newsletter/message/subscribe.txt"
    /\ mail.sent.alternatives = <<"newsletter/message/subscribe.html">>

\* C14: update() with a token other than "subscribe", "update" and
\* "unsubscribe" fails before it has any effect: the instance's flags and
\* timestamps, the stored rows and the table's keys are as before the
\* call.
C14_UnknownTokenRejected ==
    [][\A o \in Objs :
          (Called("update", o)
             /\ last'.action \notin {"subscribe", "update", "unsubscribe"}) =>
             /\ ~last'.ok
             /\ objs' = objs
             /\ db' = db /\ nextPk' = nextPk
      ]_vars

\* update("resubscribe") on an instance of a stored, pending record has
\* failed.
C14_Witness ==
    /\ last.op = "update" /\ last.action = "resubscribe" /\ ~last.ok
    /\ objs[last.o].pk \in DOMAIN db
    /\ Flags(objs[last.o]) = <<FALSE, FALSE>>
    /\ Flags(db[objs[last.o].pk]) = <<FALSE, FALSE>>

\* C15: save() of an instance whose pk names no stored row (the row was
\* deleted after the instance was loaded) fails with nothing done: no row
\* is written or created again, and the instance's flags and timestamps
\* are as before the call, whatever flags it asked for.
C15_MissingRowRejected ==
    [][\A o \in Objs :
          (Called("save", o) /\ objs[o].pk # 0
             /\ objs[o].pk \notin DOMAIN db) =>
             /\ ~last'.ok
             /\ db' = db /\ nextPk' = nextPk
             /\ objs' = objs
      ]_vars

\* A record was stored and then deleted; save() of the instance that still
\* carries its pk, asked to subscribe, has failed and the table is empty.
C15_Witness ==
    /\ last.op = "save" /\ ~last.ok /\ last.old = <<>>
    /\ last.req = <<TRUE, FALSE>>
    /\ objs[last.o].pk # 0
    /\ DOMAIN db = {}

\* C16 as stated: after a successful update("unsubscribe") the stored
\* record is unsubscribed: unsubscribed true, subscribed false and an
\* unsubscribe_date, for a new record with any in-memory flags and for an
\* existing record whose instance may be stale.
C16_UpdateUnsubscribes ==
    [][\A o \in Objs :
          (Called("update", o) /\ last'.action = "unsubscribe"
             /\ last'.ok) =>
             LET row == db'[objs'[o].pk]
             IN /\ Flags(row) = <<FALSE, TRUE>>
                /\ row.unsubscribe_date # 0
      ]_vars

\* C17 as stated: after the make_subscribed bulk action every selected
\* record is stored with subscribed true and unsubscribed false, whatever
\* it was before; the action leaves no row with both flags true.
C17_BulkSubscribes ==
    last.op = "make_subscribed" =>
        \A pk \in last.selected :
            pk \in DOMAIN db => Flags(db[pk]) = <<TRUE, FALSE>>

\* C18 as stated: after the make_unsubscribed bulk action every selected
\* record is stored with unsubscribed true, subscribed false and an
\* unsubscribe_date; a record that was subscribed does not end up pending.
C18_BulkUnsubscribes ==
    last.op = "make_unsubscribed" =>
        \A pk \in last.selected :
            pk \in DOMAIN db =>
                /\ Flags(db[pk]) = <<FALSE, TRUE>>
                /\ db[pk].unsubscribe_date # 0

\* C19: two callers' save() calls on one record, their read and write steps
\* interleaved in any order and asking for any flags, never store a row
\* with subscribed and unsubscribed both true when there was none at the
\* start: a save() writes both flags true only when the stored flags it
\* read were both true (second conjunct: the hook, for every requested and
\* every stored flags; third: the write steps of the interleaved calls).
C19_RaceNeverBothFlags ==
    /\ [](\A pk \in DOMAIN db : Flags(db[pk]) # <<TRUE, TRUE>>)
    /\ [](\A s \in BOOLEAN, u \in BOOLEAN, os \in BOOLEAN, ou \in BOOLEAN :
             LET record == NewSubscription(DefaultUser, DefaultEmail)
                 self == [record EXCEPT !.pk = 1, !.subscribed = s,
                                        !.unsubscribed = u]
                 old == [RowOf(record) EXCEPT !.subscribed = os,
                                              !.unsubscribed = ou]
                 r == SaveHook(self, 1 :> old, clock)
             IN (r.ok /\ Flags(r.obj) = <<TRUE, TRUE>>)
                   => <<os, ou>> = <<TRUE, TRUE>>)
    /\ [][\A o \in Objs :
             (Called("save_write", o) /\ objs'[o].pk \in DOMAIN db'
                /\ Flags(db'[objs'[o].pk]) = <<TRUE, TRUE>>) =>
                last'.old = <<TRUE, TRUE>>
       ]_vars

\* A save() asked for both flags true on a subscribed record, the other
\* caller unsubscribed the record between its read and its write, and it
\* wrote.
C19_Witness ==
    /\ last.op = "save_write" /\ last.ok
    /\ last.req = <<TRUE, TRUE>>
    /\ last.old = <<TRUE, FALSE>> /\ last.over = <<FALSE, TRUE>>

\* The step was a successful save(), plain or through update(), of an
\* instance o whose row exists.
SavedExisting(o) ==
    /\ Called("save", o) \/ Called("update", o)
    /\ last'.ok
    /\ objs[o].pk \in DOMAIN db

C21_DatesSet ==
    \A pk \in DOMAIN db :
        /\ db[pk].subscribed => db[pk].subscribe_date # 0
        /\ db[pk].unsubscribed => db[pk].unsubscribe_date # 0

\* A record unsubscribed at time 1 was loaded, asked to be subscribed and
\* saved at time 2: it is stored subscribed with a subscribe_date of 2.
C21_Witness ==
    /\ last.op = "save" /\ last.ok
    /\ last.old = <<FALSE, TRUE>> /\ last.req = <<TRUE, FALSE>>
    /\ LET row == db[objs[last.o].pk]
       IN /\ Flags(row) = <<TRUE, FALSE>>
          /\ row.subscribe_date = 2 /\ row.unsubscribe_date = 1

====
